---- MODULE Spec2Model ----
(***************************************************************************)
(* Invoice dashboard (src/main.py): the InvoiceData store with its dedup   *)
(* lookup and JSON cache, the import workers started by on_import, and the *)
(* query handlers of InvoiceDashboard that derive filtered_invoices.       *)
(*                                                                         *)
(* Text is modelled by TLA+ strings; dates and amounts are parsed by       *)
(* tables over the texts that occur in the modelled payloads.              *)
(***************************************************************************)
EXTENDS Integers, Sequences, FiniteSets, TLC

VARIABLES
    invoices,           \* InvoiceData.invoices: the Store (list of records)
    filtered_invoices,  \* InvoiceData.filtered_invoices: the current view
    invoice_lookup,     \* InvoiceData.invoice_lookup: set of dedup key strings
    data_file,          \* contents of invoice_data.json
    backup_file,        \* contents of invoice_data.json.bak
    workers,            \* import worker threads, by start order
    after_queue,        \* callbacks scheduled with self.after, not yet run
    exporter,           \* the export thread and its progress dialog
    search_var,         \* InvoiceDashboard.search_var
    filter_vars,        \* InvoiceDashboard.filter_vars and the two date entries
    sort_column,        \* InvoiceDashboard.sort_column ("" before the first sort)
    sort_reverse,       \* InvoiceDashboard.sort_reverse
    completed,          \* history: sources whose process_folder has returned
    session             \* "starting" until InvoiceData() has returned, then
                        \* "running"; "crashed" when it raised

vars == <<invoices, filtered_invoices, invoice_lookup, data_file, backup_file,
          workers, after_queue, exporter, search_var, filter_vars, sort_column,
          sort_reverse, completed, session>>

(***************************************************************************)
(* Bounds                                                                  *)
(***************************************************************************)
\* Import runs started over the whole behaviour (sessions included).
MaxImports == 2

\* F(x) and F(x, y) with the arguments evaluated once, before F is entered:
\* Python evaluates the arguments of a call before the call.
Call(F(_), x) == CHOOSE r \in {F(v) : v \in {x}} : TRUE

Call2(F(_, _), x, y) == CHOOSE r \in {F(v, u) : v \in {x}, u \in {y}} : TRUE

(***************************************************************************)
(* Python text helpers                                                     *)
(***************************************************************************)
LowerChar(c) ==
    CASE c = "A" -> "a" [] c = "B" -> "b" [] c = "C" -> "c" [] c = "D" -> "d"
      [] c = "E" -> "e" [] c = "F" -> "f" [] c = "G" -> "g" [] c = "H" -> "h"
      [] c = "I" -> "i" [] c = "J" -> "j" [] c = "K" -> "k" [] c = "L" -> "l"
      [] c = "M" -> "m" [] c = "N" -> "n" [] c = "O" -> "o" [] c = "P" -> "p"
      [] c = "Q" -> "q" [] c = "R" -> "r" [] c = "S" -> "s" [] c = "T" -> "t"
      [] c = "U" -> "u" [] c = "V" -> "v" [] c = "W" -> "w" [] c = "X" -> "x"
      [] c = "Y" -> "y" [] c = "Z" -> "z" [] OTHER -> c

RECURSIVE Lower(_)
\* str.lower()
Lower(arg) ==
  Call(LAMBDA s : (
    IF Len(s) = 0 THEN ""
    ELSE LowerChar(SubSeq(s, 1, 1)) \o Lower(SubSeq(s, 2, Len(s)))
  ), arg)

\* str.endswith(suffix)
EndsWith(arg1, arg2) ==
  Call2(LAMBDA s, suffix : (
    /\ Len(s) >= Len(suffix)
    /\ SubSeq(s, Len(s) - Len(suffix) + 1, Len(s)) = suffix
  ), arg1, arg2)

\* `q in s` on Python strings
Contains(arg1, arg2) ==
  Call2(LAMBDA s, q : (
    \E i \in 1..(Len(s) - Len(q) + 1) : SubSeq(s, i, i + Len(q) - 1) = q
  ), arg1, arg2)

\* datetime.strptime(text, "%Y-%m-%d") succeeds
ValidDate(text) ==
    text \in {"2024-01-10", "2024-02-10", "2024-03-05", "2099-12-31"}

\* the date strptime returns, as a day count
DateValue(text) ==
    CASE text = "2024-01-10" -> 10
      [] text = "2024-02-10" -> 41
      [] text = "2024-03-05" -> 65
      [] text = "2099-12-31" -> 27758

\* datetime.datetime.now().date(), as a day count (2026-11-05)
Today == DateValue("2024-03-05") + 975

RECURSIVE ReplaceComma(_)
\* text.replace(',', '.')
ReplaceComma(arg) ==
  Call(LAMBDA text : (
    IF Len(text) = 0 THEN ""
    ELSE (IF SubSeq(text, 1, 1) = "," THEN "." ELSE SubSeq(text, 1, 1))
             \o ReplaceComma(SubSeq(text, 2, Len(text)))
  ), arg)

\* The decimal digits.
DigitChars == "0123456789"

IsDigit(c) == \E i \in 1..Len(DigitChars) : SubSeq(DigitChars, i, i) = c

\* int(c) for a digit c
DigitValue(c) ==
    (CHOOSE i \in 1..Len(DigitChars) : SubSeq(DigitChars, i, i) = c) - 1

\* A non-empty run of digits.
AllDigits(s) ==
    /\ Len(s) > 0
    /\ \A i \in 1..Len(s) : IsDigit(SubSeq(s, i, i))

RECURSIVE ParseDigits(_)
\* int(s) for a run of digits
ParseDigits(arg) ==
  Call(LAMBDA s : (
    IF Len(s) = 0 THEN 0
    ELSE 10 * ParseDigits(SubSeq(s, 1, Len(s) - 1))
            + DigitValue(SubSeq(s, Len(s), Len(s)))
  ), arg)

\* The index of the first "." of text, 0 when it has none.
DotIndex(text) ==
    IF \E i \in 1..Len(text) : SubSeq(text, i, i) = "."
    THEN CHOOSE i \in 1..Len(text) :
            /\ SubSeq(text, i, i) = "."
            /\ \A j \in 1..(i - 1) : SubSeq(text, j, j) # "."
    ELSE 0

\* float(text) succeeds (otherwise it raises ValueError), for the texts of
\* the modelled payloads and entries: unsigned decimals with at most two
\* fraction digits; any other text of the model is one float() rejects.
FloatOk(arg) ==
  Call(LAMBDA text : (
    LET d == DotIndex(text)
    IN  IF d = 0 THEN AllDigits(text)
        ELSE /\ AllDigits(SubSeq(text, 1, d - 1))
             /\ Len(text) - d <= 2
             /\ \A i \in (d + 1)..Len(text) : IsDigit(SubSeq(text, i, i))
  ), arg)

\* float(text), in hundredths
FloatValue(arg) ==
  Call(LAMBDA text : (
    LET d == DotIndex(text)
        frac == IF d = 0 THEN "" ELSE SubSeq(text, d + 1, Len(text))
        whole == IF d = 0 THEN text ELSE SubSeq(text, 1, d - 1)
    IN  100 * ParseDigits(whole)
           + (IF Len(frac) = 0 THEN 0
              ELSE IF Len(frac) = 1 THEN 10 * ParseDigits(frac)
              ELSE ParseDigits(frac))
  ), arg)

RECURSIVE DigitsOf(_)
\* str(n) for a natural number n
DigitsOf(arg) ==
  Call(LAMBDA n : (
    IF n < 10 THEN SubSeq(DigitChars, n + 1, n + 1)
    ELSE DigitsOf(n \div 10) \o SubSeq(DigitChars, (n % 10) + 1, (n % 10) + 1)
  ), arg)

\* f"{x:.2f}" for a non-negative x given in hundredths
Format2f(arg) ==
  Call(LAMBDA h : (
    DigitsOf(h \div 100) \o "." \o DigitsOf((h % 100) \div 10) \o DigitsOf(h % 10)
  ), arg)

\* Python's None as the value of a field (no modelled text contains "<").
None == "<None>"

\* bool(v) for a field value: None and "" are falsy.
Truthy(v) == v # "" /\ v # None

\* str(v), also what an f-string puts for v
Str(v) == IF v = None THEN "None" ELSE v

\* The characters of the modelled texts, in code point order.
CodePoints == " ,-./0123456789ABCDEFGHIJKLMNOPQRSTUVWXYZ_abcdefghijklmnopqrstuvwxyz"

\* ord(c)
Ord(c) == CHOOSE i \in 1..Len(CodePoints) : SubSeq(CodePoints, i, i) = c

RECURSIVE StrLess(_, _)
\* a < b on Python strings
StrLess(a, b) ==
    IF Len(b) = 0 THEN FALSE
    ELSE IF Len(a) = 0 THEN TRUE
    ELSE IF SubSeq(a, 1, 1) = SubSeq(b, 1, 1)
         THEN StrLess(SubSeq(a, 2, Len(a)), SubSeq(b, 2, Len(b)))
         ELSE Ord(SubSeq(a, 1, 1)) < Ord(SubSeq(b, 1, 1))

(***************************************************************************)
(* Records                                                                 *)
(***************************************************************************)
\* InvoiceData.columns: the displayed fields, by the field names used here
\* ("Nr. doc." is nr_doc, "Produse/Servicii" is produse, "Cant." is cant,
\* "Pret fara TVA (RON)" is pret, "Total factura" is total_factura, ...).
columns ==
    <<"nr_doc", "data_emiterii", "termen_plata", "cota_tva", "furnizor", "cif",
      "reg_com", "adresa", "judet", "iban", "banca", "produse", "descriere",
      "um", "cant", "pret", "valoare", "valoare_tva", "total", "total_factura">>

\* The dedup key both _build_invoice_lookup and process_folder format.
DedupKey(inv) ==
    Str(inv.nr_doc) \o "_" \o Str(inv.produse) \o "_" \o Str(inv.cant)
        \o "_" \o Str(inv.pret)

\* A sequence as the set of its elements.
Range(s) == {s[i] : i \in 1..Len(s)}

build_invoice_lookup(invs) == {DedupKey(invs[i]) : i \in 1..Len(invs)}

(***************************************************************************)
(* Payloads and sources                                                    *)
(***************************************************************************)
\* A record with every field empty.
EmptyRecord ==
    [nr_doc |-> "", data_emiterii |-> "", termen_plata |-> "", cota_tva |-> "",
     furnizor |-> "", cif |-> "", reg_com |-> "", adresa |-> "", judet |-> "",
     iban |-> "", banca |-> "", produse |-> "", descriere |-> "", um |-> "",
     cant |-> "", pret |-> "", valoare |-> "", valoare_tva |-> "", total |-> "",
     total_factura |-> "", status |-> "", filename |-> "", folder_name |-> ""]

(***************************************************************************)
(* Payloads: the element tree lxml parses from the bytes of a file, by the *)
(* elements process_xml_file looks up. An element is its text, EmptyEl for *)
(* an element without text, Absent when find() returns None.               *)
(***************************************************************************)
Absent == "<absent>"
EmptyEl == "<empty>"

\* get_text(element): element.text, which is None for an element without
\* text; "" when there is no element.
get_text(element) ==
    IF element = Absent THEN ""
    ELSE IF element = EmptyEl THEN None
    ELSE element

\* A document without any of the elements looked up.
EmptyDoc ==
    [root |-> TRUE, id |-> Absent, issue_date |-> Absent, due_date |-> Absent,
     supplier_name |-> Absent, supplier_cif |-> Absent,
     supplier_regcom |-> Absent, supplier_street |-> Absent,
     supplier_judet |-> Absent, payee_account |-> FALSE, iban |-> Absent,
     bank_name |-> Absent, payable |-> Absent, subtotals |-> <<>>,
     lines |-> <<>>]

\* Bytes the parser gets no root element from.
Unparsable == [EmptyDoc EXCEPT !.root = FALSE]

\* A cac:TaxSubtotal block; its cbc:Percent lives in its cac:TaxCategory.
TaxSubtotal(category_id, percent) ==
    [category |-> TRUE, id |-> category_id, percent |-> percent]

\* A cac:InvoiceLine block without any of the elements looked up.
EmptyLine ==
    [qty |-> Absent, unit_code |-> Absent, price |-> Absent, net |-> Absent,
     tax_category |-> FALSE, tax_id |-> Absent, tax_percent |-> Absent,
     name |-> Absent, desc |-> Absent]

\* The payloads of the two well-formed files of the sources.
DocA ==
    [EmptyDoc EXCEPT !.id = "F-001", !.issue_date = "2024-01-10",
        !.due_date = "2024-02-10", !.supplier_name = "Alfa SRL",
        !.supplier_cif = "RO100", !.supplier_street = "Str. Lunga",
        !.payable = "119,50", !.subtotals = <<TaxSubtotal("S", "19")>>,
        !.lines = <<[EmptyLine EXCEPT !.qty = "1", !.unit_code = "H87",
                        !.price = "100", !.net = "100", !.name = "Widget"],
                    [EmptyLine EXCEPT !.qty = "2", !.unit_code = "H87",
                        !.price = "25", !.net = "50", !.name = "Nut"]>>]

DocC ==
    [EmptyDoc EXCEPT !.id = "F-003", !.issue_date = "2024-03-05",
        !.due_date = "2099-12-31", !.supplier_name = "Beta SA",
        !.supplier_cif = "RO200", !.supplier_street = "Bd. Unirii",
        !.payable = "n/a"]

\* A lineless invoice whose supplier name and payable amount are elements
\* without text, and which has no due date.
DocD ==
    [EmptyDoc EXCEPT !.id = "F-004", !.issue_date = "2024-02-10",
        !.supplier_name = EmptyEl, !.supplier_cif = "RO300",
        !.payable = EmptyEl]

IsSpace(c) == c = " "

RECURSIVE SkipSpaces(_, _)
\* The index behind the run of whitespace that starts at index i of s.
SkipSpaces(s, i) ==
    IF i <= Len(s) /\ IsSpace(SubSeq(s, i, i)) THEN SkipSpaces(s, i + 1) ELSE i

\* The index behind the match of \s*nr\.\s* (ignoring case) that starts at
\* index i of s; 0 when none starts there.
MatchEnd(s, i) ==
    LET j == SkipSpaces(s, i)
    IN  IF j + 2 <= Len(s) /\ Lower(SubSeq(s, j, j + 2)) = "nr."
        THEN SkipSpaces(s, j + 3)
        ELSE 0

RECURSIVE StripFrom(_, _)
\* re.sub from index i on: the leftmost matches, not overlapping, are left
\* out in one pass.
StripFrom(s, i) ==
    IF i > Len(s) THEN ""
    ELSE IF MatchEnd(s, i) = 0 THEN SubSeq(s, i, i) \o StripFrom(s, i + 1)
    ELSE StripFrom(s, MatchEnd(s, i))

\* Line 214: re.sub(r'\s*nr\.\s*', '', invoice_number, flags=re.IGNORECASE)
normalize_number(invoice_number) == StripFrom(invoice_number, 1)

\* format_vat_percent: two decimals, "0.00" for a text float() rejects.
format_vat_percent(arg) ==
  Call(LAMBDA vat_percent_text : (
    IF FloatOk(ReplaceComma(vat_percent_text))
    THEN Format2f(FloatValue(ReplaceComma(vat_percent_text)))
    ELSE "0.00"
  ), arg)

\* The least element of a non-empty set of numbers.
Least(S) == CHOOSE x \in S : \A y \in S : x <= y

\* A resolution without the loop of lines 150-157: the percent of the first
\* TaxSubtotal that has one, whatever its category.
extract_vat_percent_first_available(root_xml) ==
    LET subs == root_xml.subtotals
        sub_percent(k) == IF subs[k].category THEN get_text(subs[k].percent) ELSE ""
        s2 == {k \in 1..Len(subs) : Truthy(sub_percent(k))}
    IN  IF s2 # {} THEN format_vat_percent(sub_percent(Least(s2))) ELSE "0.00"

\* extract_vat_percent: the percent of the first TaxSubtotal of category S
\* that has one, else of the first TaxSubtotal that has one, else of the
\* first line of tax category S that has one, else of the first line that
\* has one, else "0.00".
extract_vat_percent(root_xml) ==
    LET subs == root_xml.subtotals
        lines == root_xml.lines
        sub_percent(k) == IF subs[k].category THEN get_text(subs[k].percent) ELSE ""
        line_percent(k) == IF lines[k].tax_category
                           THEN get_text(lines[k].tax_percent) ELSE ""
        s1 == {k \in 1..Len(subs) : /\ subs[k].category
                                    /\ get_text(subs[k].id) = "S"
                                    /\ Truthy(sub_percent(k))}
        s2 == {k \in 1..Len(subs) : Truthy(sub_percent(k))}
        s3 == {k \in 1..Len(lines) : /\ lines[k].tax_category
                                     /\ get_text(lines[k].tax_id) = "S"
                                     /\ Truthy(line_percent(k))}
        s4 == {k \in 1..Len(lines) : Truthy(line_percent(k))}
    IN  IF s1 # {} THEN format_vat_percent(sub_percent(Least(s1)))
        ELSE IF s2 # {} THEN format_vat_percent(sub_percent(Least(s2)))
        ELSE IF s3 # {} THEN format_vat_percent(line_percent(Least(s3)))
        ELSE IF s4 # {} THEN format_vat_percent(line_percent(Least(s4)))
        ELSE "0.00"

\* The products net * percent / 100 (net and percent in hundredths, up to
\* 10.00 and of the rates 5, 9 and 19) that lie exactly between two cents
\* and that round(..., 2) of the binary floating-point product rounds up.
TiesRoundedUp ==
    {<<10, 500>>, <<50, 500>>, <<70, 500>>, <<110, 500>>, <<130, 500>>,
     <<170, 500>>, <<190, 500>>, <<230, 500>>, <<270, 500>>, <<330, 500>>,
     <<390, 500>>, <<450, 500>>, <<510, 500>>, <<530, 500>>, <<550, 500>>,
     <<630, 500>>, <<650, 500>>, <<670, 500>>, <<750, 500>>, <<770, 500>>,
     <<790, 500>>, <<810, 500>>, <<890, 500>>, <<910, 500>>, <<930, 500>>,
     <<150, 900>>, <<250, 900>>, <<350, 900>>, <<450, 900>>, <<750, 900>>,
     <<850, 900>>, <<50, 1900>>, <<350, 1900>>, <<650, 1900>>,
     <<750, 1900>>}

\* Line 303: round(line_ext * line_vat_value / 100, 2), in hundredths. The
\* floating-point product is off the exact one by far less than half a cent,
\* so only a product exactly between two cents can go either way.
round_tax(line_ext, line_vat_value) ==
    LET product == line_ext * line_vat_value
        q == product \div 10000
        r == product % 10000
    IN  IF r < 5000 THEN q
        ELSE IF r > 5000 THEN q + 1
        ELSE IF <<line_ext, line_vat_value>> \in TiesRoundedUp THEN q + 1
        ELSE q

\* A line loop that never looks at the line's own tax category.
line_vat_text_ignored(line) == ""

\* Lines 292-294: the text of the cbc:Percent of the line's own
\* cac:ClassifiedTaxCategory, "" when the line has no such category.
line_vat_text(line) ==
    IF line.tax_category THEN get_text(line.tax_percent) ELSE ""

\* Lines 276-343: the record of one InvoiceLine, before the status and the
\* provenance are filled in.
LineRecord(header, line, vat_percent_formatted) ==
    LET line_ext_text == get_text(line.net)
        line_vat_percent == IF Truthy(line_vat_text(line))
                            THEN format_vat_percent(line_vat_text(line))
                            ELSE vat_percent_formatted
        computes == ~Truthy(line_ext_text) \/ FloatOk(ReplaceComma(line_ext_text))
        line_ext == IF Truthy(line_ext_text)
                    THEN FloatValue(ReplaceComma(line_ext_text)) ELSE 0
        line_tax == round_tax(line_ext, FloatValue(line_vat_percent))
    IN  [header EXCEPT
            !.cota_tva = line_vat_percent,
            !.produse = get_text(line.name),
            !.descriere = get_text(line.desc),
            !.um = IF line.qty = Absent THEN ""
                   ELSE IF line.unit_code = Absent THEN None
                   ELSE line.unit_code,
            !.cant = get_text(line.qty),
            !.pret = get_text(line.price),
            !.valoare = line_ext_text,
            !.valoare_tva = IF computes THEN Format2f(line_tax) ELSE "0.00",
            !.total = IF computes THEN Format2f(line_ext + line_tax) ELSE "0.00"]

\* Something raises inside the try block of process_xml_file: the parser
\* gets no root (line 206), or the ID has no text and re.sub raises
\* TypeError on None (line 214).
ExtractionFails(xml_content) ==
    ~xml_content.root \/ get_text(xml_content.id) = None

\* An exception that is not handled inside process_xml_file.
process_xml_file_unhandled(xml_content) == ExtractionFails(xml_content)

\* process_xml_file raises: never, the handlers of lines 208 and 346 catch
\* every Exception and return the empty list.
process_xml_file_raises(xml_content) == FALSE

\* What lines 213-345 of process_xml_file extract from a payload, before the
\* status and the provenance are filled in: one record per InvoiceLine, one
\* record with empty line fields for a lineless invoice, nothing when
\* something raises.
ExtractRecords(arg) ==
  Call(LAMBDA xml_content : (
    IF ExtractionFails(xml_content) THEN <<>>
    ELSE LET vat_percent_formatted == extract_vat_percent(xml_content)
             header ==
                 [EmptyRecord EXCEPT
                     !.nr_doc = normalize_number(get_text(xml_content.id)),
                     !.data_emiterii = get_text(xml_content.issue_date),
                     !.termen_plata = get_text(xml_content.due_date),
                     !.cota_tva = vat_percent_formatted,
                     !.furnizor = get_text(xml_content.supplier_name),
                     !.cif = get_text(xml_content.supplier_cif),
                     !.reg_com = get_text(xml_content.supplier_regcom),
                     !.adresa = get_text(xml_content.supplier_street),
                     !.judet = get_text(xml_content.supplier_judet),
                     !.iban = IF xml_content.payee_account
                              THEN get_text(xml_content.iban) ELSE "",
                     !.banca = IF xml_content.payee_account
                               THEN get_text(xml_content.bank_name) ELSE "",
                     !.total_factura = get_text(xml_content.payable)]
         IN  IF xml_content.lines = <<>> THEN <<header>>
             ELSE [k \in 1..Len(xml_content.lines) |->
                      LineRecord(header, xml_content.lines[k],
                                 vat_percent_formatted)]
  ), arg)

\* determine_status: `pick` is what random.choice returns.
determine_status(issue_date, due_date, pick) ==
    IF ~Truthy(due_date) THEN "Pending"
    ELSE IF ~ValidDate(due_date) THEN "Pending"
    ELSE IF DateValue(due_date) < Today THEN "Overdue"
    ELSE pick

\* process_xml_file: picks[i] is the random choice made for record i.
process_xml_file(xml_content, folder_name, filename, picks) ==
    LET recs == ExtractRecords(xml_content)
    IN  [i \in 1..Len(recs) |->
            [recs[i] EXCEPT
                !.status = determine_status(recs[i].data_emiterii,
                                            recs[i].termen_plata, picks[i]),
                !.filename = filename,
                !.folder_name = folder_name]]

\* The directory trees that can be selected: the files os.walk meets, in
\* order, each with the base name of its directory and its payload.
DirEntries(folder_path) ==
    CASE folder_path = "inbox" ->
            <<[name |-> "InvA.xml", folder |-> "jan", readable |-> TRUE,
               content |-> DocA],
              [name |-> "Semnatura_InvA.xml", folder |-> "jan",
               readable |-> TRUE, content |-> DocC],
              [name |-> "notes.txt", folder |-> "jan", readable |-> TRUE,
               content |-> Unparsable],
              [name |-> "InvA.xml", folder |-> "copy", readable |-> TRUE,
               content |-> DocA]>>
      [] folder_path = "mixed" ->
            <<[name |-> "broken.XML", folder |-> "mixed", readable |-> TRUE,
               content |-> Unparsable],
              [name |-> "InvC.xml", folder |-> "mixed", readable |-> TRUE,
               content |-> DocC]>>
      [] folder_path = "held" ->
            <<[name |-> "InvC.xml", folder |-> "held", readable |-> TRUE,
               content |-> DocC],
              [name |-> "held.xml", folder |-> "held", readable |-> FALSE,
               content |-> Unparsable]>>
      [] OTHER -> <<>>

\* The entries of a ZIP archive in the order of namelist(): the name, whether
\* zf.read(name) succeeds, the payload, and for an entry that is itself an
\* archive the entries inside it.
ZipEntry(name, readable, content, entries) ==
    [name |-> name, readable |-> readable, content |-> content,
     entries |-> entries]

ZipEntries(zip_path) ==
    IF zip_path = "bundle.zip"
    THEN <<ZipEntry("jan/", TRUE, Unparsable, <<>>),
           ZipEntry("damaged.xml", FALSE, Unparsable, <<>>),
           ZipEntry("feb.zip", TRUE, Unparsable,
                    <<ZipEntry("lost.xml", FALSE, Unparsable, <<>>),
                      ZipEntry("InvD.xml", TRUE, DocD, <<>>),
                      ZipEntry("w1/deep.zip", TRUE, Unparsable,
                               <<ZipEntry("Semnatura_InvA.XML", TRUE, DocA, <<>>),
                                 ZipEntry("InvC.xml", TRUE, DocC, <<>>)>>)>>),
           ZipEntry("jan/InvC.xml", TRUE, DocC, <<>>)>>
    ELSE <<>>

\* os.path.isdir(folder_path)
IsDir(folder_path) == folder_path \in {"inbox", "mixed", "held"}

\* The paths the file dialog of on_import can return.
Paths == {"inbox", "mixed", "held", "bundle.zip", "notes.txt"}

(***************************************************************************)
(* Files on disk                                                           *)
(***************************************************************************)
\* No file at that path.
NoFile == [kind |-> "absent", data |-> <<>>]

\* A file that holds the JSON array json.dump writes for `invs`.
JsonFile(invs) == [kind |-> "json", data |-> invs]

\* A file opened with mode 'w' and not (completely) written: truncated or cut
\* short, so json.load raises on it.
TruncatedFile == [kind |-> "truncated", data |-> <<>>]

\* A file that exists and cannot be opened for reading.
UnreadableFile == [kind |-> "unreadable", data |-> <<>>]

\* A file that holds valid JSON for a number, a text or null.
ScalarJsonFile == [kind |-> "json_scalar", data |-> <<>>]

\* A file that holds valid JSON for a container that json.load returns and
\* .copy() copies but whose items are no record objects: an array of
\* numbers, or an object (iterating it gives its keys).
ItemsJsonFile(items) == [kind |-> "json_items", data |-> items]

\* os.path.exists
Exists(file) == file.kind # "absent"

\* What load_cached_data leaves in self.invoices for the file it finds:
\* what json.load returns, or the empty list when something raises inside
\* the try block (open, json.load, len of a number or of null, .copy() of a
\* text) and also when there is no file.
load_cached_data(file) ==
    IF file.kind \in {"json", "json_items"} THEN file.data ELSE <<>>

\* _build_invoice_lookup, called by __init__ outside any try block, raises
\* AttributeError on the first item that has no .get method.
init_raises(file) == file.kind = "json_items"

(***************************************************************************)
(* process_folder, step by step                                            *)
(***************************************************************************)
\* A test of the extension alone.
IsCandidate_by_extension(name) == EndsWith(Lower(name), ".xml")

\* The candidates of lines 358-364, 429 and 457: names that end in .xml in
\* any case and do not contain "semnatura" in any case.
IsCandidate(arg) ==
  Call(LAMBDA name : (
    /\ EndsWith(Lower(name), ".xml")
    /\ ~Contains(Lower(name), "semnatura")
  ), arg)

\* process_folder, lines 356-368: the (content, folder_name, filename)
\* triples of the candidates of a directory, in walk order.
WalkDirectory(folder_path) ==
    LET Keep(e) == IsCandidate(e.name)
        kept == SelectSeq(DirEntries(folder_path), Keep)
    IN  [i \in 1..Len(kept) |->
            [name |-> kept[i].name, folder |-> kept[i].folder,
             content |-> kept[i].content]]

\* Lines 366-367 are outside any try block: open() or read() of a candidate
\* that cannot be read raises out of process_folder.
WalkRaises(folder_path) ==
    \E e \in Range(DirEntries(folder_path)) :
        IsCandidate(e.name) /\ ~e.readable

\* The index of the last occurrence of ch in text, 0 when there is none.
LastIndexOf(text, ch) ==
    LET at == {i \in 1..Len(text) : SubSeq(text, i, i) = ch}
    IN  IF at = {} THEN 0 ELSE CHOOSE i \in at : \A j \in at : j <= i

\* os.path.basename(name)
Basename(name) == SubSeq(name, LastIndexOf(name, "/") + 1, Len(name))

\* os.path.splitext(name)[0] of a base name
SplitExt(name) ==
    IF LastIndexOf(name, ".") <= 1 THEN name
    ELSE SubSeq(name, 1, LastIndexOf(name, ".") - 1)

\* A label that keeps only the nested archive's own name.
sub_folder_name_flat(current_folder_name, name) == SplitExt(Basename(name))

\* Lines 425 and 453: the label of the entries of a nested archive.
sub_folder_name(current_folder_name, name) ==
    current_folder_name \o "/" \o SplitExt(Basename(name))

RECURSIVE collect_xml_files_from_inmemory(_, _)
\* collect_xml_files_from_inmemory, lines 441-466: directory entries are
\* passed over, an entry whose read raises is logged and skipped (line 461),
\* a nested archive is walked under the label folder/archive, a candidate is
\* yielded under its base name.
collect_xml_files_from_inmemory(arg1, arg2) ==
  Call2(LAMBDA entries, current_folder_name : (
    IF entries = <<>> THEN <<>>
    ELSE LET e == Head(entries)
             here ==
                IF EndsWith(e.name, "/") \/ ~e.readable THEN <<>>
                ELSE IF EndsWith(Lower(e.name), ".zip")
                THEN collect_xml_files_from_inmemory(e.entries,
                        sub_folder_name(current_folder_name, e.name))
                ELSE IF IsCandidate(e.name)
                THEN <<[name |-> Basename(e.name),
                        folder |-> current_folder_name,
                        content |-> e.content]>>
                ELSE <<>>
         IN  here \o collect_xml_files_from_inmemory(Tail(entries),
                                                      current_folder_name)
  ), arg1, arg2)

\* collect_xml_files_from_zip, lines 410-439: the same walk over the archive
\* on disk, labelled with the archive's base name without its extension.
collect_xml_files_from_zip(zip_path) ==
    collect_xml_files_from_inmemory(ZipEntries(zip_path),
                                    SplitExt(Basename(zip_path)))

RECURSIVE DedupInto(_, _, _)
\* The loop of lines 381-392 over the records of one file: each record whose
\* key is not in the lookup is appended to new_invoices and its key entered.
DedupInto(recs, new_invoices, lookup) ==
    IF recs = <<>> THEN [new_invoices |-> new_invoices, lookup |-> lookup]
    ELSE LET inv == Head(recs)
             key == DedupKey(inv)
         IN  IF key \notin lookup
             THEN DedupInto(Tail(recs), Append(new_invoices, inv), lookup \cup {key})
             ELSE DedupInto(Tail(recs), new_invoices, lookup)

Workers == 1..MaxImports

\* A thread that has not been started, and one that is gone. `save` is how
\* the thread's save_cached_data ended, `copied` what its backup step copied,
\* `rerun` whether process_folder had returned for its source before.
IdleWorker ==
    [pc |-> "idle", folder_path |-> "", xml_files |-> <<>>, idx |-> 0,
     new_invoices |-> <<>>, dialog |-> FALSE, save |-> "none", rerun |-> FALSE,
     copied |-> NoFile]

DoneWorker == [IdleWorker EXCEPT !.pc = "done"]

\* The progress dialog of some import holds the grab: the main window takes
\* no input.
Grab == exporter.dialog \/ \E w \in Workers : workers[w].dialog

\* The threads that have been started and have not yet scheduled their
\* completion.
Running == {w \in Workers : workers[w].pc \notin {"idle", "exit", "done"}}

\* The export thread before on_export has started it. `cause` is how the
\* last export_to_excel ended.
IdleExporter == [pc |-> "idle", dialog |-> FALSE, cause |-> "none"]

search_placeholder == "Search for invoice..."

InitialFilters ==
    [status |-> "All", date_from |-> "", date_to |-> "", nr_doc |-> "",
     furnizor |-> "", cif |-> "", adresa |-> "", min_amount |-> "",
     max_amount |-> ""]

Init ==
    /\ data_file = NoFile
    /\ backup_file = NoFile
    /\ invoices = load_cached_data(NoFile)
    /\ filtered_invoices = load_cached_data(NoFile)
    /\ invoice_lookup = build_invoice_lookup(load_cached_data(NoFile))
    /\ workers = [w \in Workers |-> IdleWorker]
    /\ after_queue = {}
    /\ exporter = IdleExporter
    /\ search_var = search_placeholder
    /\ filter_vars = InitialFilters
    /\ sort_column = ""
    /\ sort_reverse = FALSE
    /\ completed = {}
    /\ session = "running"

ui_vars == <<search_var, filter_vars, sort_column, sort_reverse, exporter>>
store_vars == <<invoices, filtered_invoices, invoice_lookup>>
disk_vars == <<data_file, backup_file>>

\* on_import: the user picks folder_path in the file dialog.
on_import(folder_path) ==
    /\ session = "running"
    /\ ~Grab
    /\ IF ~IsDir(folder_path) /\ ~EndsWith(Lower(folder_path), ".zip")
       THEN UNCHANGED workers
       ELSE /\ \E w \in Workers :
                /\ workers[w].pc = "idle"
                /\ \A v \in Workers : v < w => workers[v].pc # "idle"
                /\ workers' = [workers EXCEPT ![w] =
                       [IdleWorker EXCEPT !.pc = "collect",
                                          !.folder_path = folder_path,
                                          !.dialog = TRUE,
                                          !.rerun = folder_path \in completed]]
    /\ UNCHANGED <<store_vars, disk_vars, after_queue, ui_vars, completed>>
    /\ UNCHANGED session

\* Line 408 and line 1549: process_folder returns len(new_invoices) and
\* process_thread schedules finish_import with it; then the thread is gone.
Returned(w, save) ==
    /\ workers' = [workers EXCEPT ![w].pc = "exit", ![w].xml_files = <<>>,
                     ![w].idx = 0, ![w].new_invoices = <<>>, ![w].save = save,
                     ![w].copied = NoFile]
    /\ after_queue' = after_queue \cup
           {[kind |-> "finish_import", w |-> w,
             new_count |-> Len(workers[w].new_invoices)]}
    /\ completed' = completed \cup {workers[w].folder_path}

\* A thread that ends on an exception without scheduling anything.
Raised_silently(w) ==
    /\ workers' = [workers EXCEPT ![w].pc = "exit", ![w].xml_files = <<>>,
                     ![w].idx = 0, ![w].new_invoices = <<>>]
    /\ UNCHANGED <<after_queue, completed>>

\* Lines 1550-1555: process_folder raised and process_thread schedules
\* show_import_error; then the thread is gone.
Raised(w) ==
    /\ workers' = [workers EXCEPT ![w].pc = "exit", ![w].xml_files = <<>>,
                     ![w].idx = 0, ![w].new_invoices = <<>>]
    /\ after_queue' = after_queue \cup
           {[kind |-> "show_import_error", w |-> w, new_count |-> 0]}
    /\ UNCHANGED completed

\* process_folder, lines 353-373: collect the files of the source.
CollectFiles(w) ==
    /\ session = "running"
    /\ workers[w].pc = "collect"
    /\ LET folder_path == workers[w].folder_path
           files == IF IsDir(folder_path)
                    THEN WalkDirectory(folder_path)
                    ELSE collect_xml_files_from_zip(folder_path)
       IN  IF IsDir(folder_path) /\ WalkRaises(folder_path)
           THEN Raised(w)
           ELSE /\ workers' = [workers EXCEPT ![w].xml_files = files,
                       ![w].pc = IF files = <<>> THEN "append" ELSE "files"]
                /\ UNCHANGED <<after_queue, completed>>
    /\ UNCHANGED <<store_vars, disk_vars, ui_vars>>
    /\ UNCHANGED session

\* process_folder, lines 377-397: one file of the loop, with its progress
\* callback. update_progress raises when the progress dialog is gone.
ProcessFile(w) ==
    /\ session = "running"
    /\ workers[w].pc = "files"
    /\ LET me == workers[w]
           file == me.xml_files[me.idx + 1]
           n == Len(ExtractRecords(file.content))
       IN  \E picks \in [1..n -> {"Paid", "Pending"}] :
           \E recs \in {process_xml_file(file.content, file.folder, file.name, picks)} :
           \E res \in {DedupInto(recs, me.new_invoices, invoice_lookup)} :
                 IF process_xml_file_raises(file.content)
                 THEN /\ Raised(w)
                      /\ UNCHANGED invoice_lookup
                 ELSE /\ invoice_lookup' = res.lookup
                      /\ IF me.dialog
                         THEN /\ workers' = [workers EXCEPT
                                     ![w].new_invoices = res.new_invoices,
                                     ![w].idx = me.idx + 1,
                                     ![w].pc = IF me.idx + 1 = Len(me.xml_files)
                                               THEN "append" ELSE "files"]
                              /\ UNCHANGED <<after_queue, completed>>
                         ELSE Raised(w)
    /\ UNCHANGED <<invoices, filtered_invoices, disk_vars, ui_vars>>
    /\ UNCHANGED session

\* An assignment in the place of the extension.
extend_replacing(list, items) == items

\* Line 402: list.extend, the items go behind what the list holds.
extend(list, items) == list \o items

\* process_folder, lines 399-406: extend the Store and reset the view, or
\* find nothing new and return.
AppendNew(w) ==
    /\ session = "running"
    /\ workers[w].pc = "append"
    /\ IF workers[w].new_invoices # <<>>
       THEN /\ invoices' = extend(invoices, workers[w].new_invoices)
            /\ filtered_invoices' = invoices'
            /\ workers' = [workers EXCEPT ![w].pc = "backup"]
            /\ UNCHANGED <<after_queue, completed>>
       ELSE /\ Returned(w, "none")
            /\ UNCHANGED <<invoices, filtered_invoices>>
    /\ UNCHANGED <<invoice_lookup, disk_vars, ui_vars>>
    /\ UNCHANGED session

(***************************************************************************)
(* save_cached_data, step by step (called at line 404)                     *)
(***************************************************************************)
\* A backup that loses the contents.
copy2_empty(source_file) == TruncatedFile

\* What shutil.copy2 leaves at the destination when it succeeds.
copy2(source_file) == source_file

\* Lines 105-108: back the cache file up if there is one. A copy that fails
\* raises into the handler of line 116, which ends the save; it leaves the
\* destination as it was or cut short.
save_backup(w) ==
    /\ session = "running"
    /\ workers[w].pc = "backup"
    /\ IF Exists(data_file)
       THEN \/ /\ backup_file' = copy2(data_file)
               /\ workers' = [workers EXCEPT ![w].pc = "open",
                                             ![w].copied = data_file]
               /\ UNCHANGED <<after_queue, completed>>
            \/ /\ backup_file' \in {backup_file, TruncatedFile}
               /\ Returned(w, "backup_failed")
       ELSE /\ workers' = [workers EXCEPT ![w].pc = "open"]
            /\ UNCHANGED <<backup_file, after_queue, completed>>
    /\ UNCHANGED <<store_vars, data_file, ui_vars>>
    /\ UNCHANGED session

\* Line 110: open(self.data_file, 'w') truncates the cache file, or raises.
save_open(w) ==
    /\ session = "running"
    /\ workers[w].pc = "open"
    /\ \/ /\ data_file' = TruncatedFile
          /\ workers' = [workers EXCEPT ![w].pc = "dump"]
          /\ UNCHANGED <<after_queue, completed>>
       \/ /\ Returned(w, "open_failed")
          /\ UNCHANGED data_file
    /\ UNCHANGED <<store_vars, backup_file, ui_vars>>
    /\ UNCHANGED session

\* Lines 111-115: json.dump writes the Store and the lookup is rebuilt, or
\* the write raises and the handler of line 116 only logs.
save_dump(w) ==
    /\ session = "running"
    /\ workers[w].pc = "dump"
    /\ \/ /\ data_file' = JsonFile(invoices)
          /\ invoice_lookup' = build_invoice_lookup(invoices)
          /\ Returned(w, "ok")
       \/ /\ data_file' = TruncatedFile
          /\ Returned(w, "dump_failed")
          /\ UNCHANGED invoice_lookup
    /\ UNCHANGED <<invoices, filtered_invoices, backup_file, ui_vars>>
    /\ UNCHANGED session

(***************************************************************************)
(* The completions and the user                                            *)
(***************************************************************************)
\* finish_import, run by the event loop.
finish_import(w, new_count) ==
    /\ session = "running"
    /\ [kind |-> "finish_import", w |-> w, new_count |-> new_count] \in after_queue
    /\ after_queue' = after_queue \ {[kind |-> "finish_import", w |-> w,
                                      new_count |-> new_count]}
    /\ workers' = [workers EXCEPT ![w] = DoneWorker]
    /\ UNCHANGED <<store_vars, disk_vars, ui_vars, completed>>
    /\ UNCHANGED session

\* show_import_error, run by the event loop.
show_import_error(w) ==
    /\ session = "running"
    /\ [kind |-> "show_import_error", w |-> w, new_count |-> 0] \in after_queue
    /\ after_queue' = after_queue \ {[kind |-> "show_import_error", w |-> w,
                                      new_count |-> 0]}
    /\ workers' = [workers EXCEPT ![w] = DoneWorker]
    /\ UNCHANGED <<store_vars, disk_vars, ui_vars, completed>>
    /\ UNCHANGED session

\* The user closes the progress dialog of on_import (a Toplevel with no
\* WM_DELETE_WINDOW handler): it is destroyed and its grab released.
close_progress_dialog(w) ==
    /\ session = "running"
    /\ workers[w].dialog
    /\ workers' = [workers EXCEPT ![w].dialog = FALSE]
    /\ UNCHANGED <<store_vars, disk_vars, after_queue, ui_vars, completed>>
    /\ UNCHANGED session

\* InvoiceData.__init__, lines 53-71: load_cached_data, then
\* _build_invoice_lookup. When the latter raises, invoice_lookup is never
\* assigned, the exception leaves InvoiceDashboard.__init__ and the program
\* ends.
InvoiceData_init ==
    /\ invoices' = load_cached_data(data_file)
    /\ filtered_invoices' = load_cached_data(data_file)
    /\ IF init_raises(data_file)
       THEN /\ invoice_lookup' = {}
            /\ session' = "crashed"
       ELSE /\ invoice_lookup' = build_invoice_lookup(load_cached_data(data_file))
            /\ session' = "running"

\* The program exits (its daemon threads with it) and is started again:
\* InvoiceData.__init__ loads the cache and builds the lookup.
restart ==
    /\ session = "running"
    /\ \E w \in Workers : workers[w].pc # "idle"
    /\ InvoiceData_init
    /\ workers' = [w \in Workers |->
                      IF workers[w].pc = "idle" THEN IdleWorker ELSE DoneWorker]
    /\ after_queue' = {}
    /\ exporter' = IdleExporter
    /\ search_var' = search_placeholder
    /\ filter_vars' = InitialFilters
    /\ sort_column' = ""
    /\ sort_reverse' = FALSE
    /\ UNCHANGED <<disk_vars, completed>>

(***************************************************************************)
(* Query engine: InvoiceData.search_invoices, filter_invoices,             *)
(* advanced_filter                                                         *)
(***************************************************************************)
\* search_invoices: the records one of whose displayed fields contains the
\* lower-cased query; every record for an empty query.
search_invoices(invs, query) ==
    IF query = "" THEN invs
    ELSE LET Hit(inv) == \E c \in 1..Len(columns) :
                            /\ Truthy(inv[columns[c]])
                            /\ Contains(Lower(inv[columns[c]]), Lower(query))
         IN  SelectSeq(invs, Hit)

\* The date test shared by filter_invoices (lines 493-516) and
\* advanced_filter (lines 577-591): an absent or unparsable issue date fails.
DateInRange(inv, date_from, date_to) ==
    /\ Truthy(inv.data_emiterii)
    /\ ValidDate(inv.data_emiterii)
    /\ date_from # "" => DateValue(date_from) <= DateValue(inv.data_emiterii)
    /\ date_to # "" => DateValue(inv.data_emiterii) <= DateValue(date_to)

\* filter_invoices(status, date_from, date_to)
filter_invoices(invs, status, date_from, date_to) ==
    LET ByStatus(inv) == inv.status = status
        ByDate(inv) == DateInRange(inv, date_from, date_to)
        first == IF status # "" /\ status # "All"
                 THEN SelectSeq(invs, ByStatus) ELSE invs
    IN  IF date_from # "" \/ date_to # "" THEN SelectSeq(first, ByDate) ELSE first

\* The text filters of advanced_filter: filter key and record field.
text_filters ==
    <<[filter_key |-> "nr_doc", invoice_key |-> "nr_doc"],
      [filter_key |-> "furnizor", invoice_key |-> "furnizor"],
      [filter_key |-> "cif", invoice_key |-> "cif"],
      [filter_key |-> "adresa", invoice_key |-> "adresa"]>>

\* Lines 608-614: the min_amount test; a total or a bound float() rejects
\* leaves the record in.
MinAmountPasses(inv, min_amount) ==
    IF ~FloatOk(ReplaceComma(inv.total_factura)) THEN TRUE
    ELSE IF ~FloatOk(min_amount) THEN TRUE
    ELSE ~(FloatValue(ReplaceComma(inv.total_factura)) < FloatValue(min_amount))

\* Lines 616-622: the max_amount test.
MaxAmountPasses(inv, max_amount) ==
    IF ~FloatOk(ReplaceComma(inv.total_factura)) THEN TRUE
    ELSE IF ~FloatOk(max_amount) THEN TRUE
    ELSE ~(FloatValue(ReplaceComma(inv.total_factura)) > FloatValue(max_amount))

\* Lines 571-605 of the loop of advanced_filter: the value of `match`
\* before the amount filters.
PreAmountMatch(inv, filters) ==
    /\ (filters.status # "" /\ filters.status # "All") => inv.status = filters.status
    /\ (filters.date_from # "" \/ filters.date_to # "")
          => DateInRange(inv, filters.date_from, filters.date_to)
    /\ \A t \in 1..Len(text_filters) :
          filters[text_filters[t].filter_key] # ""
             => Contains(Lower(Str(inv[text_filters[t].invoice_key])),
                         Lower(filters[text_filters[t].filter_key]))

\* Lines 610 and 618: .replace on a total that is None raises
\* AttributeError, which the handlers of lines 613 and 621 do not catch.
AmountRaises(inv, filters) ==
    /\ PreAmountMatch(inv, filters)
    /\ filters.min_amount # "" \/ filters.max_amount # ""
    /\ inv.total_factura = None

\* The body of the loop of advanced_filter (lines 569-626): the value of
\* `match` for one record the loop gets through.
AdvancedMatch(inv, filters) ==
    /\ PreAmountMatch(inv, filters)
    /\ filters.min_amount # "" => MinAmountPasses(inv, filters.min_amount)
    /\ filters.max_amount # "" => MaxAmountPasses(inv, filters.max_amount)

\* advanced_filter(filters) raises.
advanced_filter_raises(invs, filters) ==
    /\ \E k \in DOMAIN filters : filters[k] # ""
    /\ \E i \in 1..Len(invs) : AmountRaises(invs[i], filters)

\* advanced_filter(filters): the view it leaves. No truthy filter value
\* gives the whole Store; a record that raises ends the loop, and the view
\* holds the matches found before it.
advanced_filter(invs, filters) ==
    LET Match(inv) == AdvancedMatch(inv, filters)
        stop == IF \E i \in 1..Len(invs) : AmountRaises(invs[i], filters)
                THEN Least({i \in 1..Len(invs) : AmountRaises(invs[i], filters)})
                ELSE Len(invs) + 1
    IN  IF \A k \in DOMAIN filters : filters[k] = "" THEN invs
        ELSE SelectSeq(SubSeq(invs, 1, stop - 1), Match)

RECURSIVE InsertByKey(_, _, _, _)
\* One step of the stable sort: x goes behind every element it does not
\* precede (ascending: by a smaller key; with reverse: by a greater key).
InsertByKey(sorted, x, column, reverse) ==
    IF sorted = <<>> THEN <<x>>
    ELSE LET y == Head(sorted)
             before == IF reverse THEN StrLess(y[column], x[column])
                       ELSE StrLess(x[column], y[column])
         IN  IF before THEN <<x>> \o sorted
             ELSE <<y>> \o InsertByKey(Tail(sorted), x, column, reverse)

RECURSIVE SortedBy(_, _, _)
\* list.sort(key=lambda x: x.get(column, ""), reverse=reverse)
SortedBy(invs, column, reverse) ==
    IF invs = <<>> THEN <<>>
    ELSE InsertByKey(SortedBy(SubSeq(invs, 1, Len(invs) - 1), column, reverse),
                     invs[Len(invs)], column, reverse)

(***************************************************************************)
(* Query handlers of InvoiceDashboard                                      *)
(***************************************************************************)
import_vars == <<invoice_lookup, data_file, backup_file, workers, after_queue,
                 completed>>

\* on_search, run by the trace on search_var when the user edits the entry.
on_search(query) ==
    /\ session = "running"
    /\ ~Grab
    /\ query # search_placeholder
    /\ search_var' = query
    /\ filtered_invoices' = search_invoices(invoices, query)
    /\ UNCHANGED <<invoices, import_vars, exporter, filter_vars, sort_column,
                   sort_reverse>>
    /\ UNCHANGED session

\* The filters on_auto_filter builds from the filter bar.
AutoFilters(fv) ==
    [InitialFilters EXCEPT !.status = fv.status, !.date_from = fv.date_from,
                           !.date_to = fv.date_to]

\* on_auto_filter, after the user has set `key` of the filter bar (the
\* status box or a date entry) to `value`.
on_auto_filter(key, value) ==
    /\ session = "running"
    /\ ~Grab
    /\ key \in {"status", "date_from", "date_to"}
    /\ filter_vars' = [filter_vars EXCEPT ![key] = value]
    /\ filtered_invoices' = advanced_filter(invoices, AutoFilters(filter_vars'))
    /\ UNCHANGED <<invoices, import_vars, exporter, search_var, sort_column,
                   sort_reverse>>
    /\ UNCHANGED session

\* apply_advanced_filters(dialog, date_from, date_to), after the user has
\* set `key` of the dialog's form (bound to filter_vars) to `value`; the
\* dialog's own date entries start empty. The filter bar takes over a date
\* only when the dialog gives one.
apply_advanced_filters(key, value, date_from, date_to) ==
    /\ session = "running"
    /\ ~Grab
    /\ key \in DOMAIN InitialFilters \ {"date_from", "date_to"}
    /\ LET fv == [filter_vars EXCEPT ![key] = value]
       IN  /\ filter_vars' = [fv EXCEPT
                  !.date_from = IF date_from # "" THEN date_from ELSE @,
                  !.date_to = IF date_to # "" THEN date_to ELSE @]
           /\ filtered_invoices' = advanced_filter(invoices,
                  [fv EXCEPT !.date_from = date_from, !.date_to = date_to])
    /\ UNCHANGED <<invoices, import_vars, exporter, search_var, sort_column,
                   sort_reverse>>
    /\ UNCHANGED session

\* clear_advanced_filters ("Clear All" in the dialog)
clear_advanced_filters ==
    /\ session = "running"
    /\ ~Grab
    /\ filter_vars' = InitialFilters
    /\ filtered_invoices' = invoices
    /\ UNCHANGED <<invoices, import_vars, exporter, search_var, sort_column,
                   sort_reverse>>
    /\ UNCHANGED session

\* on_clear_filters: search_var.set("") runs on_search, then the placeholder
\* is put back.
on_clear_filters ==
    /\ session = "running"
    /\ ~Grab
    /\ filter_vars' = InitialFilters
    /\ search_var' = search_placeholder
    /\ filtered_invoices' = invoices
    /\ UNCHANGED <<invoices, import_vars, exporter, sort_column, sort_reverse>>
    /\ UNCHANGED session

\* A caller of InvoiceData.filter_invoices (the dashboard has none).
call_filter_invoices(status, date_from, date_to) ==
    /\ session = "running"
    /\ ~Grab
    /\ filtered_invoices' = filter_invoices(invoices, status, date_from, date_to)
    /\ UNCHANGED <<invoices, import_vars, exporter, search_var, filter_vars,
                   sort_column, sort_reverse>>
    /\ UNCHANGED session

\* The orders of the elements of a list.
Orders(invs) ==
    {p \in [1..Len(invs) -> Range(invs)] :
        \A i \in 1..Len(invs) :
            Cardinality({k \in 1..Len(invs) : p[k] = invs[i]})
                = Cardinality({k \in 1..Len(invs) : invs[k] = invs[i]})}

\* The orders a list.sort that raises leaves the list in: with fewer than
\* four elements the comparison fails before an element has moved, a longer
\* list can be left partially sorted.
FailedSortOrders(invs) == IF Len(invs) <= 3 THEN {invs} ELSE Orders(invs)

\* list.sort raises TypeError: it compares a key that is None.
sort_raises(invs, column) ==
    /\ Len(invs) >= 2
    /\ \E i \in 1..Len(invs) : invs[i][column] = None

\* sort_by_column with the view and the Store being one list.
sort_by_column_aliased(column) ==
    /\ session = "running"
    /\ ~Grab
    /\ sort_column' = column
    /\ sort_reverse' = IF sort_column = column THEN ~sort_reverse ELSE FALSE
    /\ IF sort_raises(filtered_invoices, column)
       THEN filtered_invoices' \in FailedSortOrders(filtered_invoices)
       ELSE filtered_invoices' = SortedBy(filtered_invoices, column, sort_reverse')
    /\ invoices' = filtered_invoices'
    /\ UNCHANGED <<import_vars, exporter, search_var, filter_vars>>
    /\ UNCHANGED session

\* sort_by_column(column): sorts the view list in place; sort_column and
\* sort_reverse are set before the sort, whether or not it raises.
sort_by_column(column) ==
    /\ session = "running"
    /\ ~Grab
    /\ sort_column' = column
    /\ sort_reverse' = IF sort_column = column THEN ~sort_reverse ELSE FALSE
    /\ IF sort_raises(filtered_invoices, column)
       THEN filtered_invoices' \in FailedSortOrders(filtered_invoices)
       ELSE filtered_invoices' = SortedBy(filtered_invoices, column, sort_reverse')
    /\ UNCHANGED <<invoices, import_vars, exporter, search_var, filter_vars>>
    /\ UNCHANGED session

(***************************************************************************)
(* Export                                                                  *)
(***************************************************************************)
\* on_export: nothing to export gives a message only; otherwise the export
\* thread is started behind its progress dialog.
on_export ==
    /\ session = "running"
    /\ ~Grab
    /\ exporter.pc = "idle"
    /\ filtered_invoices # <<>>
    /\ exporter' = [IdleExporter EXCEPT !.pc = "export", !.dialog = TRUE]
    /\ UNCHANGED <<store_vars, import_vars, search_var, filter_vars, sort_column,
                   sort_reverse>>
    /\ UNCHANGED session

\* How export_to_excel can end: the workbook is saved, there is nothing to
\* export, the target is locked by another process (wb.save raises
\* PermissionError), or anything else raises.
ExportCauses == {"saved", "empty", "locked", "failed"}

\* What export_to_excel returns (1 for True, 0 for False): False at line
\* 522 and from the handler of line 554, True after wb.save.
export_result(cause) == IF cause = "saved" THEN 1 ELSE 0

\* export_thread: export_to_excel ends and finish_export is scheduled with
\* what it returned.
export_to_excel ==
    /\ session = "running"
    /\ exporter.pc = "export"
    /\ \E cause \in ExportCauses :
          /\ cause = "empty" <=> filtered_invoices = <<>>
          /\ after_queue' = after_queue \cup
                {[kind |-> "finish_export", w |-> 0,
                  new_count |-> export_result(cause)]}
          /\ exporter' = [exporter EXCEPT !.pc = "exit", !.cause = cause]
    /\ UNCHANGED <<store_vars, disk_vars, workers, search_var, filter_vars,
                   sort_column, sort_reverse, completed>>
    /\ UNCHANGED session

\* finish_export, run by the event loop.
finish_export(success) ==
    /\ session = "running"
    /\ [kind |-> "finish_export", w |-> 0, new_count |-> success] \in after_queue
    /\ after_queue' = after_queue \ {[kind |-> "finish_export", w |-> 0,
                                      new_count |-> success]}
    /\ exporter' = IdleExporter
    /\ UNCHANGED <<store_vars, disk_vars, workers, search_var, filter_vars,
                   sort_column, sort_reverse, completed>>
    /\ UNCHANGED session

Next ==
    \/ \E folder_path \in Paths : on_import(folder_path)
    \/ \E w \in Workers : CollectFiles(w)
    \/ \E w \in Workers : ProcessFile(w)
    \/ \E w \in Workers : AppendNew(w)
    \/ \E w \in Workers : save_backup(w)
    \/ \E w \in Workers : save_open(w)
    \/ \E w \in Workers : save_dump(w)
    \/ \E w \in Workers, n \in {e.new_count : e \in after_queue} : finish_import(w, n)
    \/ \E w \in Workers : show_import_error(w)
    \/ \E w \in Workers : close_progress_dialog(w)
    \/ restart

\* The program importing: imports, saves and restarts, in any interleaving
\* of the event loop, the user and the import threads.
Spec == Init /\ [][Next]_vars

(***************************************************************************)
(* The program querying: a loaded Store, the query handlers and the export *)
(***************************************************************************)
\* The Stores left by importing "inbox" and then "mixed", and by importing
\* a file of DocD and then "inbox".
QueryStores ==
    LET a == process_xml_file(DocA, "jan", "InvA.xml",
                              [i \in 1..2 |-> "Pending"])
        c == process_xml_file(DocC, "mixed", "InvC.xml",
                              [i \in 1..1 |-> "Paid"])
        d == process_xml_file(DocD, "feb", "InvD.xml",
                              [i \in 1..1 |-> "Pending"])
    IN  {a \o c, d \o a}

InitQuery ==
    /\ invoices \in QueryStores
    /\ data_file = JsonFile(invoices)
    /\ backup_file = NoFile
    /\ filtered_invoices = load_cached_data(data_file)
    /\ invoice_lookup = build_invoice_lookup(invoices)
    /\ workers = [w \in Workers |-> IdleWorker]
    /\ after_queue = {}
    /\ exporter = IdleExporter
    /\ search_var = search_placeholder
    /\ filter_vars = InitialFilters
    /\ sort_column = ""
    /\ sort_reverse = FALSE
    /\ completed = {}
    /\ session = "running"

\* The texts the user enters and the values the user selects.
Queries == {"", "SA"}
SortColumns == {"furnizor", "nr_doc"}
FilterDates == {"", "2024-02-10"}
DialogDates == {<<"", "">>, <<"2024-02-10", "">>}
FilterKeys == {"status", "furnizor", "min_amount", "max_amount"}
FilterValues(key) ==
    CASE key = "status" -> {"All", "Overdue"}
      [] key = "furnizor" -> {"", "SRL"}
      [] key = "min_amount" -> {"", "100"}
      [] key = "max_amount" -> {"", "150"}
      [] OTHER -> {""}

NextQuery ==
    \/ \E query \in Queries : on_search(query)
    \/ \E status \in FilterValues("status") : on_auto_filter("status", status)
    \/ \E key \in {"date_from", "date_to"}, d \in FilterDates : on_auto_filter(key, d)
    \/ \E key \in FilterKeys :
          \E value \in FilterValues(key), dates \in DialogDates :
             apply_advanced_filters(key, value, dates[1], dates[2])
    \/ clear_advanced_filters
    \/ on_clear_filters
    \/ \E column \in SortColumns : sort_by_column(column)
    \/ \E status \in FilterValues("status"), dates \in DialogDates :
          call_filter_invoices(status, dates[1], dates[2])
    \/ on_export
    \/ export_to_excel
    \/ \E success \in 0..1 : finish_export(success)

SpecQuery == InitQuery /\ [][NextQuery]_vars

(***************************************************************************)
(* Imports under a fair scheduler: threads that can run do run, and the    *)
(* event loop runs the callbacks scheduled with self.after                 *)
(***************************************************************************)
\* A step of the import thread of worker w.
ThreadStep(w) ==
    \/ CollectFiles(w)
    \/ ProcessFile(w)
    \/ AppendNew(w)
    \/ save_backup(w)
    \/ save_open(w)
    \/ save_dump(w)

\* The event loop runs the completion scheduled for worker w.
Completion(w) ==
    \/ \E n \in {e.new_count : e \in after_queue} : finish_import(w, n)
    \/ show_import_error(w)

\* The sources selected: a tree that imports, a tree whose walk raises and an
\* archive.
NextImport ==
    \/ \E folder_path \in {"mixed", "held", "bundle.zip"} : on_import(folder_path)
    \/ \E w \in Workers : ThreadStep(w)
    \/ \E w \in Workers : Completion(w)
    \/ \E w \in Workers : close_progress_dialog(w)

\* The program importing: a started thread (lines 1557-1559) is scheduled
\* until it returns, and the event loop runs every callback handed to
\* after() (lines 1549 and 1555).
SpecImportFair ==
    /\ Init
    /\ [][NextImport]_vars
    /\ \A w \in Workers : WF_vars(ThreadStep(w)) /\ WF_vars(Completion(w))

(***************************************************************************)
(* One session: imports, and between them searches, filters, sorts and     *)
(* exports                                                                 *)
(***************************************************************************)
\* The sources imported in the session.
SessionPaths == {"mixed", "bundle.zip"}

NextSession ==
    \/ \E folder_path \in SessionPaths : on_import(folder_path)
    \/ \E w \in Workers : CollectFiles(w)
    \/ \E w \in Workers : ProcessFile(w)
    \/ \E w \in Workers : AppendNew(w)
    \/ \E w \in Workers : save_backup(w)
    \/ \E w \in Workers : save_open(w)
    \/ \E w \in Workers : save_dump(w)
    \/ \E w \in Workers, n \in {e.new_count : e \in after_queue} : finish_import(w, n)
    \/ \E query \in Queries : on_search(query)
    \/ \E status \in FilterValues("status") : on_auto_filter("status", status)
    \/ \E column \in SortColumns : sort_by_column(column)
    \/ on_export
    \/ export_to_excel
    \/ \E success \in 0..1 : finish_export(success)

\* The program from its start to its exit, without a restart, the progress
\* dialog of an import staying open until the import ends.
SpecSession == Init /\ [][NextSession]_vars

(***************************************************************************)
(* The start of the program on the cache file it finds                     *)
(***************************************************************************)
\* What invoice_data.json can hold when the program starts.
CacheFiles ==
    {NoFile, TruncatedFile, UnreadableFile, ScalarJsonFile,
     ItemsJsonFile(<<1, 2>>), ItemsJsonFile(<<"a">>), JsonFile(<<>>)}
       \cup {JsonFile(invs) : invs \in QueryStores}

\* The fields as lines 54-55 set them, before load_cached_data is called.
InitStart ==
    /\ data_file \in CacheFiles
    /\ backup_file = NoFile
    /\ invoices = <<>>
    /\ filtered_invoices = <<>>
    /\ invoice_lookup = {}
    /\ workers = [w \in Workers |-> IdleWorker]
    /\ after_queue = {}
    /\ exporter = IdleExporter
    /\ search_var = search_placeholder
    /\ filter_vars = InitialFilters
    /\ sort_column = ""
    /\ sort_reverse = FALSE
    /\ completed = {}
    /\ session = "starting"

\* InvoiceDashboard.__init__, line 717: self.invoice_data = InvoiceData().
start ==
    /\ session = "starting"
    /\ InvoiceData_init
    /\ UNCHANGED <<disk_vars, workers, after_queue, completed, ui_vars>>

NextStart ==
    \/ start
    \/ \E query \in Queries : on_search(query)
    \/ \E status \in FilterValues("status") : on_auto_filter("status", status)
    \/ \E column \in SortColumns : sort_by_column(column)

\* The program starting and then queried.
SpecStart == InitStart /\ [][NextStart]_vars

(***************************************************************************)
(* The extractor on a family of payloads: an import that has collected one *)
(* file runs to its end                                                    *)
(***************************************************************************)
\* The longest raw ID text of the family.
MaxIdLen == 6

\* The characters the raw ID texts are made of.
IdAlphabet == {"n", "r", ".", " "}

RECURSIVE Join(_)
\* The text made of the characters of a sequence.
Join(chars) == IF chars = <<>> THEN "" ELSE Head(chars) \o Join(Tail(chars))

\* The raw texts of cbc:ID.
IdTexts ==
    {Join(chars) : chars \in UNION {[1..n -> IdAlphabet] : n \in 1..MaxIdLen}}

\* A payload with a supplier and an issue date and no due date.
BaseDoc ==
    [EmptyDoc EXCEPT !.id = "F-100", !.issue_date = "2024-01-10",
        !.supplier_name = "Alfa SRL", !.supplier_cif = "RO100"]

\* The texts of cbc:Percent, Absent for a block without one.
PercentTexts == {"19", "9", "5", Absent}

\* The texts of cbc:LineExtensionAmount: amounts, an element without text
\* and no element.
NetTexts == {"2.50", "1,50", "100", EmptyEl, Absent}

\* An InvoiceLine; it has a ClassifiedTaxCategory when it has a percent.
InvoiceLine(name, net, percent) ==
    [EmptyLine EXCEPT !.name = name, !.qty = "1", !.unit_code = "H87",
        !.net = net, !.tax_category = (percent # Absent),
        !.tax_id = IF percent = Absent THEN Absent ELSE "S",
        !.tax_percent = percent]

\* Payloads that differ in their raw ID text.
IdDocs == {[BaseDoc EXCEPT !.id = text] : text \in IdTexts}

\* Lineless payloads with two TaxSubtotal blocks.
SubtotalDocs ==
    {[BaseDoc EXCEPT !.subtotals = <<TaxSubtotal(c1, p1), TaxSubtotal(c2, p2)>>] :
        c1 \in {"S", "E"}, c2 \in {"S", "E"},
        p1 \in PercentTexts, p2 \in PercentTexts}

\* Payloads with two lines, with and without a TaxSubtotal block.
LineDocs ==
    {[BaseDoc EXCEPT !.subtotals = subs,
                     !.lines = <<InvoiceLine("Widget", n1, p1),
                                 InvoiceLine("Nut", n2, p2)>>] :
        subs \in {<<>>, <<TaxSubtotal("S", "19")>>},
        n1 \in NetTexts, n2 \in NetTexts,
        p1 \in PercentTexts \ {"5"}, p2 \in PercentTexts \ {"19"}}

\* Payloads with two lines of the same item, quantity and unit price, with
\* the same or another net amount and description.
TwinDocs ==
    {[BaseDoc EXCEPT !.lines = <<InvoiceLine("Widget", "100", "19"),
                                 [InvoiceLine("Widget", net, "19")
                                     EXCEPT !.desc = desc]>>] :
        net \in {"100", "2.50"}, desc \in {Absent, "blue"}}

ExtractDocs == IdDocs \cup SubtotalDocs \cup LineDocs \cup TwinDocs

\* Two one-line invoices whose numbers and item names hold the separator of
\* the dedup key.
DocE ==
    [BaseDoc EXCEPT !.id = "12",
                    !.lines = <<InvoiceLine("34_Widget", "100", "19")>>]

DocF ==
    [BaseDoc EXCEPT !.id = "12_34",
                    !.lines = <<InvoiceLine("Widget", "100", "19")>>]

\* The files an import has collected: one payload of the family, or the two
\* invoices above.
ExtractBatches ==
    {<<[name |-> "doc.xml", folder |-> "upload", content |-> xml_content]>> :
        xml_content \in ExtractDocs}
      \cup {<<[name |-> "InvE.xml", folder |-> "upload", content |-> DocE],
              [name |-> "InvF.xml", folder |-> "upload", content |-> DocF]>>}

\* The first import of a session has collected its files.
InitExtract ==
    /\ data_file = NoFile
    /\ backup_file = NoFile
    /\ invoices = load_cached_data(NoFile)
    /\ filtered_invoices = load_cached_data(NoFile)
    /\ invoice_lookup = build_invoice_lookup(load_cached_data(NoFile))
    /\ \E xml_files \in ExtractBatches :
          workers = [w \in Workers |->
              IF w = 1
              THEN [IdleWorker EXCEPT !.pc = "files", !.folder_path = "upload",
                       !.dialog = TRUE, !.xml_files = xml_files]
              ELSE IdleWorker]
    /\ after_queue = {}
    /\ exporter = IdleExporter
    /\ search_var = search_placeholder
    /\ filter_vars = InitialFilters
    /\ sort_column = ""
    /\ sort_reverse = FALSE
    /\ completed = {}
    /\ session = "running"

NextExtract ==
    \/ \E w \in Workers : ProcessFile(w)
    \/ \E w \in Workers : AppendNew(w)
    \/ \E w \in Workers : save_backup(w)
    \/ \E w \in Workers : save_open(w)
    \/ \E w \in Workers : save_dump(w)
    \/ \E w \in Workers, n \in {e.new_count : e \in after_queue} : finish_import(w, n)

\* The program extracting one payload and storing its records.
SpecExtract == InitExtract /\ [][NextExtract]_vars

(***************************************************************************)
(* Claims                                                                  *)
(***************************************************************************)
\* The fields the dedup key is made of.
KeyFields(inv) == <<inv.nr_doc, inv.produse, inv.cant, inv.pret>>

\* The ways save_cached_data ends without having written the Store.
FailedSaves == {"backup_failed", "open_failed", "dump_failed"}

\* Worker w takes the step that ends its save_cached_data.
SaveEnds(w) ==
    /\ workers[w].pc \in {"backup", "open", "dump"}
    /\ workers'[w].pc = "exit"

\* The cache file as it was when the save of worker w began: what the
\* backup step met, and after a copy what was copied.
CacheBeforeSave(w) ==
    IF workers[w].pc = "backup" THEN data_file ELSE workers[w].copied

\* C1: in every reachable state no two records of the Store have the same
\* dedup key (documentNumber, itemName, quantity, unitPrice).
C1_NoDuplicateKeys ==
    \A i, j \in 1..Len(invoices) :
        i # j => KeyFields(invoices[i]) # KeyFields(invoices[j])

\* C2: once process_folder(S) has returned, a later process_folder(S) on the
\* same source returns 0 (and so appends nothing), in the same session and
\* after a restart that reloads the Store from the cache file.
C2_ReimportReturnsZero ==
    \A e \in after_queue :
        (e.kind = "finish_import" /\ workers[e.w].rerun) => e.new_count = 0

C4_FailedSaveKeepsCache ==
    [][\A w \in Workers :
          (SaveEnds(w) /\ workers'[w].save \in FailedSaves
              /\ Exists(CacheBeforeSave(w)))
             => data_file' = CacheBeforeSave(w)]_vars

\* C5: a save whose backup copy failed has still written the full current
\* Store to the cache file when it ends.
C5_BackupFailureStillSaves ==
    [][\A w \in Workers :
          (SaveEnds(w) /\ workers'[w].save = "backup_failed")
             => data_file' = JsonFile(invoices')]_vars

\* C6: when persisting the Store fails during an import run, process_folder
\* does not return a count and no finish_import is scheduled for the run.
C6_FailedSaveIsSurfaced ==
    \A e \in after_queue :
        e.kind = "finish_import" => workers[e.w].save \notin FailedSaves

\* C7: at most one import worker runs at any time.
C7_AtMostOneImportWorker == Cardinality(Running) <= 1

\* C8: at most one save_cached_data has the cache file open for writing at
\* a time, only save_cached_data changes the cache file, and a save that
\* overwrites an existing cache file has copied it to .bak before.
C8_SingleWriterWithBackup ==
    [][/\ Cardinality({w \in Workers : workers'[w].pc = "dump"}) <= 1
       /\ data_file' # data_file
             => \E w \in Workers : /\ workers[w].pc \in {"open", "dump"}
                                   /\ workers'[w].pc # workers[w].pc
       /\ \A w \in Workers :
             (workers[w].pc = "open" /\ workers'[w].pc = "dump"
                 /\ Exists(data_file))
                => workers[w].copied = data_file]_vars

\* C9: every query operation and every export leaves the Store unchanged:
\* the same records, in the same order, with the same field values (each
\* step of SpecQuery is a query operation or a step of an export).
C9_QueriesLeaveStoreUnchanged == [][invoices' = invoices]_vars

\* A sort has put the view into another order than the Store's.
C9_Witness ==
    /\ sort_column # ""
    /\ Len(filtered_invoices) = Len(invoices)
    /\ filtered_invoices # invoices

\* The free-text search of search_var, when it is active.
SearchMatch(inv, query) ==
    \E c \in 1..Len(columns) :
        /\ Truthy(inv[columns[c]])
        /\ Contains(Lower(inv[columns[c]]), Lower(query))

\* The records of the Store that satisfy every active predicate of the
\* filter bar, the advanced filters and the search box.
ActiveMatches ==
    {inv \in Range(invoices) :
        /\ AdvancedMatch(inv, filter_vars)
        /\ search_var \notin {"", search_placeholder}
              => SearchMatch(inv, search_var)}

\* C10: after a filter-setting operation the view contains exactly the
\* Store records that satisfy every active predicate.
C10_ViewIsConjunctionOfActiveFilters ==
    [][(filter_vars' # filter_vars \/ search_var' # search_var)
          => Range(filtered_invoices') = ActiveMatches']_vars

\* float() takes the total of the record, with a comma as decimal
\* separator.
TotalParses(inv) ==
    /\ inv.total_factura # None
    /\ FloatOk(ReplaceComma(inv.total_factura))

\* The amount predicate as claimed: a total that does not parse passes, one
\* that parses has to lie within the active bounds.
AmountInBounds(inv, filters) ==
    TotalParses(inv) =>
        /\ filters.min_amount # ""
              => FloatValue(filters.min_amount)
                    <= FloatValue(ReplaceComma(inv.total_factura))
        /\ filters.max_amount # ""
              => FloatValue(ReplaceComma(inv.total_factura))
                    <= FloatValue(filters.max_amount)

\* C11: when apply_advanced_filters runs with a min-amount or max-amount
\* filter, a record that passes the other filters is in the view exactly if
\* its total does not parse or lies within the active bounds.
C11_AmountFilterKeepsUnparsable ==
    [][\A key \in FilterKeys :
          \A value \in FilterValues(key), dates \in DialogDates :
             LET filters == [filter_vars EXCEPT ![key] = value,
                                !.date_from = dates[1], !.date_to = dates[2]]
             IN  (/\ apply_advanced_filters(key, value, dates[1], dates[2])
                  /\ filters.min_amount # "" \/ filters.max_amount # "")
                    => \A i \in 1..Len(invoices) :
                          PreAmountMatch(invoices[i], filters)
                             => (invoices[i] \in Range(filtered_invoices')
                                    <=> AmountInBounds(invoices[i], filters))]_vars

\* The sort key of a record; a missing value counts as the empty string.
SortKey(inv, column) == IF inv[column] = None THEN "" ELSE inv[column]

\* `after` holds the records of `before` in the order of a stable sort on
\* column: ascending, or descending with reverse; records with equal keys
\* keep the order they had.
StablySorted(before, after, column, reverse) ==
    /\ Len(after) = Len(before)
    /\ Range(after) = Range(before)
    /\ \A i, j \in 1..Len(after) :
          i < j =>
             LET x == after[i]
                 y == after[j]
             IN  /\ IF reverse
                    THEN ~StrLess(SortKey(x, column), SortKey(y, column))
                    ELSE ~StrLess(SortKey(y, column), SortKey(x, column))
                 /\ SortKey(x, column) = SortKey(y, column)
                       => (CHOOSE k \in 1..Len(before) : before[k] = x)
                             < (CHOOSE k \in 1..Len(before) : before[k] = y)

\* C12: sort_by_column sorts the view stably on the requested field; the
\* direction is descending exactly when the request before was for the same
\* field and ascending, and ascending otherwise.
C12_StableSortTogglesDirection ==
    [][\A column \in SortColumns :
          sort_by_column(column)
             => /\ sort_reverse' = (sort_column = column /\ ~sort_reverse)
                /\ StablySorted(filtered_invoices, filtered_invoices', column,
                                sort_reverse')]_vars

\* C13: when export_to_excel cannot write its locked target, what the
\* caller receives differs from what it receives for every other way the
\* export can fail and for an empty view.
C13_LockedTargetIsDistinct ==
    \A e \in after_queue :
        (e.kind = "finish_export" /\ exporter.cause = "locked")
           => \A cause \in ExportCauses \ {"saved", "locked"} :
                 e.new_count # export_result(cause)

\* Worker w takes a step of the loop of process_folder while its progress
\* dialog is open.
LoopStep(w) ==
    /\ workers[w].pc = "files"
    /\ workers[w].dialog /\ workers'[w].dialog
    /\ workers'[w] # workers[w]

\* C14: process_xml_file never raises: a payload whose parsing or
\* extraction fails adds nothing, and process_folder goes on with the next
\* file of the batch, collects the new records of every file and appends
\* what it has collected to the Store.
C14_FailedFileIsSkipped ==
    [][\A w \in Workers :
          /\ LoopStep(w) =>
                LET me == workers[w]
                    file == me.xml_files[me.idx + 1]
                IN  /\ workers'[w].idx = me.idx + 1
                    /\ workers'[w].pc = IF me.idx + 1 = Len(me.xml_files)
                                        THEN "append" ELSE "files"
                    /\ ExtractionFails(file.content)
                          => workers'[w].new_invoices = me.new_invoices
                    /\ \A rec \in Range(ExtractRecords(file.content)) :
                          DedupKey(rec) \notin invoice_lookup
                             => \E n \in Range(workers'[w].new_invoices) :
                                   KeyFields(n) = KeyFields(rec)
          /\ (workers[w].pc = "append" /\ workers'[w].pc = "backup")
                => invoices' = invoices \o workers[w].new_invoices]_vars

\* A run has got past a file whose extraction failed and has collected a
\* record from a later file.
C14_Witness ==
    \E w \in Workers :
        /\ workers[w].pc = "append"
        /\ \E k \in 1..Len(workers[w].xml_files) :
              /\ ExtractionFails(workers[w].xml_files[k].content)
              /\ \E n \in Range(workers[w].new_invoices) :
                    n.filename # workers[w].xml_files[k].name

RECURSIVE ReadableEntries(_)
\* The candidates of an archive that can be read, those of the nested
\* archives included, by base name and payload.
ReadableEntries(entries) ==
    UNION {IF ~e.readable THEN {}
           ELSE IF EndsWith(Lower(e.name), ".zip") THEN ReadableEntries(e.entries)
           ELSE IF IsCandidate(e.name)
           THEN {[name |-> Basename(e.name), content |-> e.content]}
           ELSE {} : e \in Range(entries)}

\* The candidates of a source that can be read.
ReadableCandidates(folder_path) ==
    IF IsDir(folder_path)
    THEN {[name |-> e.name, content |-> e.content] :
             e \in {d \in Range(DirEntries(folder_path)) :
                       IsCandidate(d.name) /\ d.readable}}
    ELSE ReadableEntries(ZipEntries(folder_path))

\* C15: a candidate that cannot be read (an entry of an archive or of a
\* nested archive, a file of a directory) is the only one the walk leaves
\* out: every readable candidate of the source is collected for processing
\* and the run is not aborted.
C15_ReadFailureSkipsOneCandidate ==
    [][\A w \in Workers :
          (workers[w].pc = "collect" /\ workers'[w].pc \notin {"collect", "done"})
             => /\ workers'[w].pc \in {"files", "append"}
                /\ \A c \in ReadableCandidates(workers[w].folder_path) :
                      \E k \in 1..Len(workers'[w].xml_files) :
                         /\ workers'[w].xml_files[k].name = c.name
                         /\ workers'[w].xml_files[k].content = c.content]_vars

\* Worker w has just extracted the one file it collected.
Extracted(w) ==
    /\ workers[w].pc = "append"
    /\ Len(workers[w].xml_files) = 1

\* The payload of that file.
Payload(w) == workers[w].xml_files[1].content

\* C16: in a document with exactly two tax-subtotal blocks, one of
\* category S that carries a percent and one of another category, the
\* resolved VAT is the formatted percent of the S block, whichever of the
\* two comes first.
C16_StandardSubtotalWins ==
    \A w \in Workers :
        Extracted(w) =>
            LET subs == Payload(w).subtotals
            IN  (Len(subs) = 2 /\ Payload(w).lines = <<>>) =>
                    \A k \in 1..2 :
                        (/\ get_text(subs[k].id) = "S"
                         /\ get_text(subs[3 - k].id) # "S"
                         /\ Truthy(get_text(subs[k].percent)))
                           => /\ Len(workers[w].new_invoices) = 1
                              /\ workers[w].new_invoices[1].cota_tva =
                                    format_vat_percent(get_text(subs[k].percent))

\* The S block comes second and its percent is the one recorded.
C16_Witness ==
    \E w \in Workers :
        /\ Extracted(w)
        /\ Payload(w).subtotals = <<TaxSubtotal("E", "9"), TaxSubtotal("S", "19")>>
        /\ workers[w].new_invoices[1].cota_tva = "19.00"

\* The text of the percent a line carries itself, "" when it carries none.
OwnPercent(line) ==
    IF line.tax_category /\ get_text(line.tax_percent) # None
    THEN get_text(line.tax_percent) ELSE ""

\* amount (hundredths) is net * percent / 100 to the nearest cent.
NearestCent(amount, net, percent) ==
    /\ amount * 10000 - net * percent <= 5000
    /\ net * percent - amount * 10000 <= 5000

\* C17: the record of a line that carries its own percent has this percent
\* as its VAT percent and a VAT amount computed from it; the record of a
\* line that carries none has the VAT resolved for the invoice; either way
\* whatever the other lines carry.
C17_LinePercentOverrides ==
    \A w \in Workers :
        (Extracted(w) /\ Len(workers[w].new_invoices) = Len(Payload(w).lines)) =>
            \A k \in 1..Len(Payload(w).lines) :
                LET line == Payload(w).lines[k]
                    rec == workers[w].new_invoices[k]
                    percent == IF OwnPercent(line) # ""
                               THEN format_vat_percent(OwnPercent(line))
                               ELSE extract_vat_percent(Payload(w))
                IN  /\ rec.cota_tva = percent
                    /\ (Truthy(rec.valoare) /\ FloatOk(ReplaceComma(rec.valoare)))
                          => NearestCent(FloatValue(rec.valoare_tva),
                                         FloatValue(ReplaceComma(rec.valoare)),
                                         FloatValue(percent))

\* A line with its own 9 percent next to a line that inherits the invoice's
\* 19 percent: two records with different percents and VAT amounts.
C17_Witness ==
    \E w \in Workers :
        /\ Extracted(w)
        /\ Payload(w).subtotals = <<TaxSubtotal("S", "19")>>
        /\ Payload(w).lines = <<InvoiceLine("Widget", "100", "9"),
                                InvoiceLine("Nut", "100", Absent)>>
        /\ Len(workers[w].new_invoices) = 2
        /\ workers[w].new_invoices[1].cota_tva = "9.00"
        /\ workers[w].new_invoices[1].valoare_tva = "9.00"
        /\ workers[w].new_invoices[2].cota_tva = "19.00"
        /\ workers[w].new_invoices[2].valoare_tva = "19.00"

\* product / 10000 rounded to a whole number, halves away from zero.
RoundHalfUp(product) == (product + 5000) \div 10000

\* product / 10000 rounded to a whole number, halves to the even neighbour.
RoundHalfEven(product) ==
    LET q == product \div 10000
        r == product % 10000
    IN  IF r < 5000 THEN q
        ELSE IF r > 5000 THEN q + 1
        ELSE IF q % 2 = 0 THEN q ELSE q + 1

\* C18: in every record with a parsable net amount and VAT percent, the VAT
\* amount is net * percent / 100 rounded to two decimals (halves up or to
\* even) and the line total is net + VAT amount, in hundredths.
C18_VatAmountIsRounded ==
    \A w \in Workers :
        Extracted(w) =>
            \A k \in 1..Len(workers[w].new_invoices) :
                LET rec == workers[w].new_invoices[k]
                IN  (/\ Truthy(rec.valoare)
                     /\ FloatOk(ReplaceComma(rec.valoare))
                     /\ FloatOk(rec.cota_tva)) =>
                        LET net == FloatValue(ReplaceComma(rec.valoare))
                            product == net * FloatValue(rec.cota_tva)
                        IN  /\ FloatValue(rec.valoare_tva) \in
                                  {RoundHalfUp(product), RoundHalfEven(product)}
                            /\ FloatValue(rec.total) =
                                  net + FloatValue(rec.valoare_tva)

\* C19: the record of a line whose net amount is absent or empty has no VAT
\* amount and no line total, never a zero value.
C19_NoNetNoAmounts ==
    \A w \in Workers :
        (Extracted(w) /\ Len(workers[w].new_invoices) = Len(Payload(w).lines)) =>
            \A k \in 1..Len(Payload(w).lines) :
                ~Truthy(get_text(Payload(w).lines[k].net)) =>
                    /\ ~Truthy(workers[w].new_invoices[k].valoare_tva)
                    /\ ~Truthy(workers[w].new_invoices[k].total)

\* C20: normalizing a recorded document number again changes nothing.
C20_NormalizationIsIdempotent ==
    \A w \in Workers :
        Extracted(w) =>
            \A k \in 1..Len(workers[w].new_invoices) :
                normalize_number(workers[w].new_invoices[k].nr_doc) =
                    workers[w].new_invoices[k].nr_doc

\* The text before the last "." of the text after the last "/".
BaseNameWithoutExtension(name) == SplitExt(Basename(name))

RECURSIVE LabelledEntries(_, _)
\* The XML entries of an archive whose label is `label`, those of the
\* archives nested in it included, each with the label it is to get: the
\* archive's own label, and for a nested archive the parent's label, "/"
\* and the nested archive's base name without extension.
LabelledEntries(entries, label) ==
    UNION {IF EndsWith(Lower(e.name), ".zip")
           THEN LabelledEntries(e.entries,
                    label \o "/" \o BaseNameWithoutExtension(e.name))
           ELSE IF EndsWith(Lower(e.name), ".xml")
           THEN {[name |-> Basename(e.name), folder |-> label]}
           ELSE {} : e \in Range(entries)}

\* Worker w has collected the files of an archive.
CollectedZip(w) ==
    /\ workers[w].pc \in {"files", "append"}
    /\ workers[w].xml_files # <<>>
    /\ ~IsDir(workers[w].folder_path)

\* C21: every XML entry collected from an archive has the label of the
\* archive it lies in: for an archive nested in another one, the parent's
\* label, "/" and the nested archive's base name without extension.
C21_NestedArchiveLabel ==
    \A w \in Workers :
        CollectedZip(w) =>
            \A k \in 1..Len(workers[w].xml_files) :
                [name |-> workers[w].xml_files[k].name,
                 folder |-> workers[w].xml_files[k].folder]
                  \in LabelledEntries(ZipEntries(workers[w].folder_path),
                         BaseNameWithoutExtension(workers[w].folder_path))

\* Entries of an archive nested once and of one nested twice have been
\* collected with the labels outer/inner and outer/inner/innermost.
C21_Witness ==
    \E w \in Workers :
        /\ CollectedZip(w)
        /\ \E k \in 1..Len(workers[w].xml_files) :
              /\ workers[w].xml_files[k].name = "InvD.xml"
              /\ workers[w].xml_files[k].folder = "bundle/feb"
        /\ \E k \in 1..Len(workers[w].xml_files) :
              /\ workers[w].xml_files[k].name = "InvC.xml"
              /\ workers[w].xml_files[k].folder = "bundle/feb/deep"

\* The name holds "semnatura" in some letter case.
IsSignature(name) == Contains(Lower(name), "semnatura")

\* C22: no file whose name holds "semnatura" in any letter case is handed to
\* the extractor, from a directory, an archive or a nested archive, and no
\* record of the Store comes from such a file.
C22_SignatureFilesAreNeverExtracted ==
    /\ \A w \in Workers :
          /\ \A k \in 1..Len(workers[w].xml_files) :
                ~IsSignature(workers[w].xml_files[k].name)
          /\ \A k \in 1..Len(workers[w].new_invoices) :
                ~IsSignature(workers[w].new_invoices[k].filename)
    /\ \A i \in 1..Len(invoices) : ~IsSignature(invoices[i].filename)

\* A directory and an archive that hold signature files have both been
\* imported and their invoices stored.
C22_Witness ==
    /\ {"inbox", "bundle.zip"} \subseteq completed
    /\ \E i \in 1..Len(invoices) : invoices[i].folder_name = "bundle/feb/deep"
    /\ \E i \in 1..Len(invoices) : invoices[i].folder_name = "jan"

\* The list `before` is the beginning of the list `after`.
IsPrefix(before, after) ==
    /\ Len(before) <= Len(after)
    /\ SubSeq(after, 1, Len(before)) = before

\* C23: within a session the Store only grows at its end: whatever is
\* done (import, search, filter, sort, export), the Store before a step is
\* a prefix of the Store after it, and it changes only in the step of an
\* import run that appends the run's new records.
C23_StoreIsAppendOnly ==
    [][/\ IsPrefix(invoices, invoices')
       /\ invoices' # invoices
             => \E w \in Workers : /\ workers[w].pc = "append"
                                   /\ workers'[w].pc = "backup"]_vars

\* Both sources have been imported, the Store holds their records, and the
\* view has been searched, sorted and exported.
C23_Witness ==
    /\ completed = SessionPaths
    /\ Len(invoices) >= 2
    /\ search_var = "SA"
    /\ sort_column # ""
    /\ exporter.pc = "exit"

\* The cache file exists and cannot be read as an array of records.
CorruptCache(file) ==
    file.kind \in {"truncated", "unreadable", "json_scalar", "json_items"}

\* C24: when the cache file exists and is unreadable or corrupt (no valid
\* JSON, or valid JSON that is no array of record objects), the start
\* completes without raising, with an empty Store, view and Index.
C24_CorruptCacheStartsEmpty ==
    [][(session = "starting" /\ CorruptCache(data_file))
          => /\ session' = "running"
             /\ invoices' = <<>>
             /\ filtered_invoices' = <<>>
             /\ invoice_lookup' = {}]_vars

\* The dedup keys of the records of a list.
KeysOf(invs) == {DedupKey(invs[i]) : i \in 1..Len(invs)}

\* C25: when a call of save_cached_data ends, whether the write succeeded
\* or failed, the keys of the Dedup Index are the dedup keys of the records
\* in the Store.
C25_IndexMatchesStoreAfterSave ==
    [][\A w \in Workers :
          SaveEnds(w) => invoice_lookup' = KeysOf(invoices')]_vars

\* C26: a value missing from the XML (no element, an element without
\* text, no unitCode attribute) is recorded as the empty string, and the
\* file's records are extracted all the same: one for a lineless invoice,
\* else one per line.
C26_MissingValuesAreEmptyStrings ==
    \A w \in Workers :
        Extracted(w) =>
            /\ Len(workers[w].new_invoices) >= 1
            /\ \A k \in 1..Len(workers[w].new_invoices) :
                  \A field \in DOMAIN workers[w].new_invoices[k] :
                      workers[w].new_invoices[k][field] # None

\* No import run but that of worker w is under way.
RunsAlone(w) ==
    \A v \in Workers \ {w} : workers[v].pc \in {"idle", "done", "exit"}

\* C27: an import run that fails leaves the Store, the Dedup Index and the
\* cache file as they were, so that a later import of the same source still
\* stores what the failed run had not stored: when a run that is alone has
\* gone through its files, every record of these files is in the Store or
\* among the run's new records.
C27_FailedRunLeavesNoTrace ==
    \A w \in Workers :
        (workers[w].pc = "append" /\ RunsAlone(w)) =>
            \A k \in 1..Len(workers[w].xml_files) :
                \A rec \in Range(ExtractRecords(workers[w].xml_files[k].content)) :
                    \E inv \in Range(invoices) \cup Range(workers[w].new_invoices) :
                        KeyFields(inv) = KeyFields(rec)

\* The records process_xml_file extracts from the files worker w holds.
Candidates(w) ==
    UNION {Range(ExtractRecords(workers[w].xml_files[k].content)) :
              k \in 1..Len(workers[w].xml_files)}

\* C28: two candidate records of a run that has gone through its files
\* have the same dedup key only when they agree on all four of document
\* number, item name, quantity and unit price, also when these values hold
\* the separator "_".
C28_SameKeyOnlyForSameFields ==
    \A w \in Workers :
        workers[w].pc = "append" =>
            \A r1 \in Candidates(w), r2 \in Candidates(w) :
                DedupKey(r1) = DedupKey(r2) => KeyFields(r1) = KeyFields(r2)

\* The line fields that are extracted from a line.
LineFields(line) ==
    <<line.name, line.desc, line.unit_code, line.qty, line.price, line.net>>

\* C29: on the first import of an invoice into a Store without records of
\* it, lines that differ from each other in some extracted line field (item
\* name, description, unit, quantity, unit price, net amount) each get
\* their own record; none is dropped as a duplicate of a sibling.
C29_DistinguishableLinesAreKept ==
    \A w \in Workers :
        Extracted(w) =>
            LET lines == Payload(w).lines
            IN  (/\ lines # <<>>
                 /\ \A i \in 1..Len(lines), j \in 1..Len(lines) :
                       i # j => LineFields(lines[i]) # LineFields(lines[j]))
                  => Len(workers[w].new_invoices) = Len(lines)

\* The completions scheduled for worker w and not yet run.
Scheduled(w) ==
    {e \in after_queue : e.w = w /\ e.kind \in {"finish_import", "show_import_error"}}

\* The import thread of worker w is alive.
Alive(w) == workers[w].pc \in {"collect", "files", "append", "backup", "open", "dump"}

\* C30: every import worker that is started ends and schedules exactly one
\* completion, finish_import with the number of records the run appended to
\* the Store or show_import_error; the event loop runs it, and then the
\* progress dialog is closed.
C30_WorkerCompletesOnce ==
    /\ \A w \in Workers :
          Alive(w) ~> (workers[w].pc = "done" /\ ~workers[w].dialog)
    /\ [](\A w \in Workers :
             Cardinality(Scheduled(w)) = IF workers[w].pc = "exit" THEN 1 ELSE 0)
    /\ [][\A w \in Workers :
             /\ (workers[w].pc = "append" /\ workers'[w].pc = "backup")
                   => Len(invoices') = Len(invoices) + Len(workers'[w].new_invoices)
             /\ (Alive(w) /\ workers'[w].pc = "exit")
                   => \A e \in Scheduled(w)' :
                         e.kind = "finish_import"
                            => /\ e.new_count = Len(workers[w].new_invoices)
                               /\ workers[w].pc = "append"
                                     => workers[w].new_invoices = <<>>]_vars

\* An import that stored records and one that failed have both ended with
\* their completion run.
C30_Witness ==
    /\ \A w \in Workers : workers[w].pc = "done"
    /\ invoices # <<>>
    /\ Cardinality(completed) = 1

====
